---------------------------- MODULE Spec2Model ----------------------------
(***************************************************************************)
(* Witness-construction core of the folding pipeline.                      *)
(*                                                                         *)
(*   Env                (arrabiata/src/witness.rs)  row/column witness     *)
(*                      builder, allocation cursors, instruction           *)
(*                      sequencer, bit-mask primitive.                     *)
(*   WitnessBuilderEnv  (msm/src/serialization/witness.rs)  single-row     *)
(*                      serialization witness builder.                     *)
(*                                                                         *)
(* Every method is one action.  A Rust panic (assert!, unimplemented!,     *)
(* an out-of-range index, an overflow check) ends the run: the action      *)
(* records the kind of panic in `panicked`, changes nothing else, and no   *)
(* action is enabled afterwards.                                           *)
(***************************************************************************)
EXTENDS Integers, Sequences, FiniteSets, TLC

\* ------------------------------------------------------------------ sizes
\* crate::NUMBER_OF_COLUMNS and crate::NUMBER_OF_PUBLIC_INPUTS are imported
\* by witness.rs; the model is checked at these sizes.
NUMBER_OF_COLUMNS == 2

NUMBER_OF_PUBLIC_INPUTS == 2

\* The srs_log2_size argument of Env::new.
SrsLog2Size == 1

\* Number of cells of the serialization witness row (SER_N_COLUMNS).
SER_N_COLUMNS == 2

\* Width, in bits, of the model's stand-in for u32 (the real width, 32, does
\* not fit the checker's integers; wrap-around is kept, modulo 2^U32Bits).
U32Bits == 9

\* Largest Poseidon round index the checks enumerate.
MaxRound == 3

\* Inputs x of the bit-mask checks are below 2^XBits.
XBits == 18

\* Number of times the checks store a fetched instruction back.
MaxApplied == 18

\* Largest out-of-range column index the checks enumerate, past the last
\* valid one.
ExtraIndex == 1

\* The iteration counters an Env starts the folding checks with: 0 .. MaxIteration
MaxIteration == 1

\* The challenges squeezed in one run of the folding checks
MaxSqueezes == 2

\* The chunk indices asked for: 0 .. MaxChunk
MaxChunk == 2

\* The moduli of the two scalar fields, Fp (curve 1) below Fq (curve 2)
FpModulus == 3

FqModulus == 5

\* The commitment rounds of one run
MaxCommits == 2

\* The srs_log2_size argument of Env::new in the end-to-end trace checks.
TraceLog2Size == 2

\* The length of the first lookup table; the second is one entry longer.
FirstTableLength == 2

\* The lookup calls of one run of the lookup checks.
MaxLookups == 3

\* The evaluation domains of the lookup checks have 2^0 .. 2^MaxDomainLog2
\* elements.
MaxDomainLog2 == 2

\* The srs_log2_size arguments of Env::new in the construction checks:
\* 0 .. MaxLog2Size
MaxLog2Size == 2

\* ---------------------------------------------------------------- helpers
RECURSIVE Pow2(_)
Pow2(n) == IF n = 0 THEN 1 ELSE 2 * Pow2(n - 1)

\* let srs_size = 1 << srs_log2_size;
srs_size == Pow2(SrsLog2Size)

\* std::array::from_fn(|_| BigUint::from(0_usize)) over n cells.
ZeroArray(n) == [i \in 0 .. n - 1 |-> 0]

\* ------------------------------------------------------ integer arithmetic
\* x >> n on an unbounded or wide-enough integer
RECURSIVE Shr(_, _)
Shr(x, n) == IF n = 0 \/ x = 0 THEN x ELSE Shr(x \div 2, n - 1)

\* x & ((1 << d) - 1): the d low bits of x, bit by bit
RECURSIVE AndLowMask(_, _)
AndLowMask(x, d) ==
    IF d = 0 \/ x = 0 THEN 0 ELSE (x % 2) + 2 * AndLowMask(x \div 2, d - 1)

\* u32: values 0 .. U32Modulus - 1
U32Modulus == Pow2(U32Bits)

U32Max == U32Modulus - 1

\* a - b in u32 when overflow is not checked
u32_wrapping_sub(a, b) == (a - b + U32Modulus) % U32Modulus

\* ---------------------------------------------------------------- columns
\* arrabiata columns::Column
X(i) == [kind |-> "X", idx |-> i]

PublicInput(i) == [kind |-> "PublicInput", idx |-> i]

\* msm columns::Column: the kinds other than X
LookupPartialSum(i) == [kind |-> "LookupPartialSum", idx |-> i]

LookupMultiplicity(i) == [kind |-> "LookupMultiplicity", idx |-> i]

LookupAggregation == [kind |-> "LookupAggregation", idx |-> 0]

LookupFixedTable(i) == [kind |-> "LookupFixedTable", idx |-> i]

\* ----------------------------------------------------------- instructions
SixteenBitsDecomposition == [tag |-> "SixteenBitsDecomposition", i |-> 0]

BitDecompositionFrom16Bits(i) == [tag |-> "BitDecompositionFrom16Bits", i |-> i]

Poseidon(i) == [tag |-> "Poseidon", i |-> i]

\* ------------------------------------------------------------------ state
VARIABLES
    \* Env
    idx_var, idx_var_pi, current_row, state, public_state,
    current_instruction, current_iteration, r, witness,
    \* Env: the size of the evaluation domains, the initial input and the
    \* current input
    domain_size, z0, zi,
    \* Env: the number of challenges squeezed out of each sponge, the
    \* commitments to the previous instances, and the commitments the
    \* workers of the last compute_and_update_previous_commitments call
    \* have produced, in the order they finished
    sponge_e1, sponge_e2, previous_commitments_e1, previous_commitments_e2,
    comms,
    \* WitnessBuilderEnv
    ser_cols, lookup_multiplicities, lookups,
    \* history: the number of completed lookup calls on each table since
    \* create
    lookup_calls,
    \* the build: TRUE when integer overflow is checked (a debug build),
    \* FALSE when it wraps (a release build)
    overflow_checks,
    \* the call just made, what it returned, and the panic that ended the run
    last_call, ret, panicked,
    \* history: the columns allocated and the values written in the current
    \* row, the rows flushed in the current iteration, and the instructions
    \* current_instruction has held
    row_allocs, row_allocs_pi, written, flushed, trail,
    \* history: the chunks extracted from the combiner since it was last
    \* stored, and the curve of each commitment round made so far
    chunks, committed,
    \* history: what the environment held when reset_for_next_iteration was
    \* last called (the witness table, the combiner, the number of challenges
    \* squeezed so far), as a one-element sequence; empty before the first call
    carried

envVars == <<idx_var, idx_var_pi, current_row, state, public_state,
             current_instruction, current_iteration, r, witness>>

ivcVars == <<sponge_e1, sponge_e2, previous_commitments_e1,
             previous_commitments_e2, comms>>

setupVars == <<domain_size, z0, zi>>

lookupVars == <<lookup_multiplicities, lookups, lookup_calls>>

serVars == <<ser_cols, lookupVars>>

histVars == <<row_allocs, row_allocs_pi, written, flushed, trail>>

foldHist == <<chunks, committed, carried>>

vars == <<envVars, ivcVars, setupVars, serVars, overflow_checks, last_call, ret, panicked,
          histVars, foldHist>>

NoRet == <<"none">>

Running == panicked = "none"

\* A panic: the run ends with every field as it was.
Panic(call, kind) ==
    /\ panicked' = kind
    /\ last_call' = call
    /\ ret' = NoRet
    /\ UNCHANGED <<envVars, serVars, ivcVars, foldHist, setupVars, overflow_checks, histVars>>


\* ------------------------------------------------------------- Env::new
\* A faulty variant: every column is one cell short.
new_witness_sized_short(n) ==
    [i \in 0 .. NUMBER_OF_COLUMNS - 1 |-> ZeroArray(n - 1)]

\* let mut witness ...: NUMBER_OF_COLUMNS columns of n zero cells.
new_witness_sized(n) == [i \in 0 .. NUMBER_OF_COLUMNS - 1 |-> ZeroArray(n)]

new_witness == new_witness_sized(srs_size)

\* domain_fp, domain_fq: EvaluationDomains::create(srs_size)
new_domains(n) == domain_size = n

\* z0: z0.clone(), zi: z0
new_inputs(z) ==
    /\ z0 = z
    /\ zi = z

\* A commitment is a point of one of the two curves.  PolyComm::new(vec![srs.h]):
\* the blinder of the curve's SRS.
Blinder(curve) == [curve |-> curve, point |-> <<"h">>]

\* previous_commitments_e1, previous_commitments_e2: one blinder per column;
\* the sponges are handed in, no challenge squeezed yet.
new_ivc ==
    /\ sponge_e1 = 0
    /\ sponge_e2 = 0
    /\ previous_commitments_e1 = [i \in 0 .. NUMBER_OF_COLUMNS - 1 |-> Blinder("e1")]
    /\ previous_commitments_e2 = [i \in 0 .. NUMBER_OF_COLUMNS - 1 |-> Blinder("e2")]
    /\ comms = <<>>

\* Env::new(srs_log2_size, z0, sponge_e1, sponge_e2): the fields it sets
\* (those the model carries).
new_env(srs_log2_size, z) ==
    /\ new_ivc
    /\ new_domains(Pow2(srs_log2_size))
    /\ new_inputs(z)
    /\ idx_var = 0
    /\ idx_var_pi = 0
    /\ current_row = 0
    /\ state = ZeroArray(NUMBER_OF_COLUMNS)
    /\ public_state = ZeroArray(NUMBER_OF_PUBLIC_INPUTS)
    /\ current_instruction = SixteenBitsDecomposition
    /\ current_iteration = 0
    /\ r = 0
    /\ witness = new_witness_sized(Pow2(srs_log2_size))

\* Env::new(SrsLog2Size, 0, ...)
new == new_env(SrsLog2Size, 0)

\* WitnessBuilderEnv::create: cols: Box::new([F::zero(); SER_N_COLUMNS])
\* The identifiers of the lookup tables (LookupTable::iter()).
LookupTables == {"RangeCheckA", "RangeCheckB"}

\* table_id.length(): the number of entries of the table.
table_length(table_id) ==
    IF table_id = "RangeCheckA" THEN FirstTableLength ELSE FirstTableLength + 1

\* for table_id in LookupTable::iter(): lookups.insert(table_id, Vec::new());
\* lookup_multiplicities.insert(table_id, vec![F::zero(); table_id.length()])
create_lookups ==
    /\ lookups = [t \in LookupTables |-> <<>>]
    /\ lookup_multiplicities =
           [t \in LookupTables |-> ZeroArray(table_length(t))]
    /\ lookup_calls = [t \in LookupTables |-> 0]

create ==
    /\ ser_cols = ZeroArray(SER_N_COLUMNS)
    /\ create_lookups

\* Nothing called yet, nothing recorded for the first row.
Fresh ==
    /\ last_call = <<"new">>
    /\ ret = NoRet
    /\ panicked = "none"
    /\ row_allocs = <<>>
    /\ row_allocs_pi = <<>>
    /\ written = ZeroArray(NUMBER_OF_COLUMNS)
    /\ flushed = <<>>
    /\ trail = <<current_instruction>>
    /\ chunks = <<>>
    /\ committed = <<>>
    /\ carried = <<>>

\* ------------------------------------------------------ Env::allocate
\* A faulty variant of the assertion: one column too many is let through.
allocate_off_by_one(i) == i <= NUMBER_OF_COLUMNS

\* assert!(self.idx_var < NUMBER_OF_COLUMNS, ...)
allocate_has_room(i) == i < NUMBER_OF_COLUMNS

allocate ==
    /\ Running
    /\ \/ /\ allocate_has_room(idx_var)
          /\ ret' = <<"col", X(idx_var)>>
          /\ idx_var' = idx_var + 1
          /\ last_call' = <<"allocate">>
          /\ row_allocs' = Append(row_allocs, X(idx_var))
          /\ UNCHANGED <<idx_var_pi, current_row, state, public_state,
                         current_instruction, current_iteration, r, witness,
                         serVars, ivcVars, foldHist, setupVars, overflow_checks, panicked,
                         row_allocs_pi, written, flushed, trail>>
       \/ /\ ~allocate_has_room(idx_var)
          /\ Panic(<<"allocate">>, "capacity")

\* ----------------------------------------- Env::allocate_public_input
\* assert!(self.idx_var_pi < NUMBER_OF_PUBLIC_INPUTS, ...)
allocate_public_input_has_room(i) == i < NUMBER_OF_PUBLIC_INPUTS

allocate_public_input ==
    /\ Running
    /\ \/ /\ allocate_public_input_has_room(idx_var_pi)
          /\ ret' = <<"col", PublicInput(idx_var_pi)>>
          /\ idx_var_pi' = idx_var_pi + 1
          /\ last_call' = <<"allocate_public_input">>
          /\ row_allocs_pi' = Append(row_allocs_pi, PublicInput(idx_var_pi))
          /\ UNCHANGED <<idx_var, current_row, state, public_state,
                         current_instruction, current_iteration, r, witness,
                         serVars, ivcVars, foldHist, setupVars, overflow_checks, panicked,
                         row_allocs, written, flushed, trail>>
       \/ /\ ~allocate_public_input_has_room(idx_var_pi)
          /\ Panic(<<"allocate_public_input">>, "capacity")

\* --------------------------------------------------- Env::write_column
\* A faulty variant of the pattern: both witness kinds are let through.
write_column_accepts_any(col) == col.kind \in {"X", "PublicInput"}

\* let Column::X(idx) = col else { unimplemented!(...) };
write_column_accepts(col) == col.kind = "X"

\* self.state[idx] = v.clone();  (an index past the array panics)
write_column_in_range(col) == col.idx < NUMBER_OF_COLUMNS

\* The panic write_column(col, _) ends in, "none" when it returns.
write_column_panic(col) ==
    IF ~write_column_accepts(col) THEN "type_mismatch"
    ELSE IF ~write_column_in_range(col) THEN "index_out_of_bounds"
    ELSE "none"

write_column_state(st, col, v) == [st EXCEPT ![col.idx] = v]

write_column(col, v) ==
    /\ Running
    /\ \/ /\ write_column_panic(col) = "none"
          /\ state' = write_column_state(state, col, v)
          /\ written' = [written EXCEPT ![col.idx] = v]
          /\ ret' = <<"val", v>>
          /\ last_call' = <<"write_column", col, v>>
          /\ UNCHANGED <<idx_var, idx_var_pi, current_row, public_state,
                         current_instruction, current_iteration, r, witness,
                         serVars, ivcVars, foldHist, setupVars, overflow_checks, panicked,
                         row_allocs, row_allocs_pi, flushed, trail>>
       \/ /\ write_column_panic(col) # "none"
          /\ Panic(<<"write_column", col, v>>, write_column_panic(col))

\* --------------------------------------------- Env::write_public_input
\* let Column::PublicInput(idx) = col else { unimplemented!(...) };
write_public_input_accepts(col) == col.kind = "PublicInput"

write_public_input_in_range(col) == col.idx < NUMBER_OF_PUBLIC_INPUTS

write_public_input_panic(col) ==
    IF ~write_public_input_accepts(col) THEN "type_mismatch"
    ELSE IF ~write_public_input_in_range(col) THEN "index_out_of_bounds"
    ELSE "none"

write_public_input(col, v) ==
    /\ Running
    /\ \/ /\ write_public_input_panic(col) = "none"
          /\ public_state' = [public_state EXCEPT ![col.idx] = v]
          /\ ret' = <<"val", v>>
          /\ last_call' = <<"write_public_input", col, v>>
          /\ UNCHANGED <<idx_var, idx_var_pi, current_row, state,
                         current_instruction, current_iteration, r, witness,
                         serVars, ivcVars, foldHist, setupVars, overflow_checks, panicked, histVars>>
       \/ /\ write_public_input_panic(col) # "none"
          /\ Panic(<<"write_public_input", col, v>>, write_public_input_panic(col))

\* ------------------------------------------------------------ Env::reset
\* A faulty variant of the flush: the row after the current one is written.
reset_witness_next_row(w, st, row) ==
    [i \in DOMAIN w |-> [w[i] EXCEPT ![(row + 1) % srs_size] = st[i]]]

\* self.witness[i][self.current_row] = x.clone()  for every cell of state
reset_witness(w, st, row) ==
    [i \in DOMAIN w |-> [w[i] EXCEPT ![row] = st[i]]]

\* A faulty variant: the row just past the end of the columns is let through.
reset_row_in_range_inclusive(w, row) == row <= Cardinality(DOMAIN w[0])

\* self.witness[i][self.current_row]: the row is a cell of the columns
\* (indexing past the end of a Vec panics).
reset_row_in_range(w, row) == row \in DOMAIN w[0]

\* public_state after reset: the method assigns state, never public_state.
reset_public_state(ps) == ps

reset ==
    /\ Running
    /\ \/ /\ reset_row_in_range(witness, current_row)
          /\ witness' = reset_witness(witness, state, current_row)
          /\ current_row' = current_row + 1
          /\ idx_var' = 0
          /\ idx_var_pi' = 0
          /\ state' = ZeroArray(NUMBER_OF_COLUMNS)
          /\ public_state' = reset_public_state(public_state)
          /\ last_call' = <<"reset">>
          /\ ret' = NoRet
          /\ flushed' = Append(flushed, written)
          /\ written' = ZeroArray(NUMBER_OF_COLUMNS)
          /\ row_allocs' = <<>>
          /\ row_allocs_pi' = <<>>
          /\ UNCHANGED <<current_instruction, current_iteration, r,
                         serVars, ivcVars, foldHist, setupVars, overflow_checks, panicked, trail>>
       \/ \* self.witness[i][self.current_row]: the row is past the column's end
          /\ ~reset_row_in_range(witness, current_row)
          /\ Panic(<<"reset">>, "index_out_of_bounds")

\* ----------------------------------------- Env::reset_for_next_iteration
\* A faulty variant: the method advances the iteration counter itself.
reset_for_next_iteration_counter_advanced(iteration) == iteration + 1

\* A faulty variant: the method clears the witness table.
reset_for_next_iteration_witness_cleared(w) ==
    [i \in DOMAIN w |-> [row \in DOMAIN w[i] |-> 0]]

\* witness after the call: the method assigns current_row, state and
\* idx_var, never witness.
reset_for_next_iteration_witness(w) == w

\* current_iteration after the call: the method assigns current_row, state
\* and idx_var, never current_iteration.
reset_for_next_iteration_counter(iteration) == iteration

reset_for_next_iteration ==
    /\ Running
    /\ current_row' = 0
    /\ state' = ZeroArray(NUMBER_OF_COLUMNS)
    /\ idx_var' = 0
    /\ current_iteration' = reset_for_next_iteration_counter(current_iteration)
    /\ witness' = reset_for_next_iteration_witness(witness)
    /\ last_call' = <<"reset_for_next_iteration">>
    /\ ret' = NoRet
    /\ flushed' = <<>>
    /\ written' = ZeroArray(NUMBER_OF_COLUMNS)
    /\ row_allocs' = <<>>
    /\ row_allocs_pi' = <<>>
    /\ carried' = <<[witness |-> witness, r |-> r,
                     squeezes |-> sponge_e1 + sponge_e2]>>
    /\ UNCHANGED <<idx_var_pi, public_state, current_instruction, r,
                   serVars, ivcVars, chunks, committed, setupVars,
                   overflow_checks, panicked, trail>>

\* ------------------------------------------------- Env::compute_output
\* self.zi = BigUint::from(42_usize)
compute_output ==
    /\ Running
    /\ zi' = 42
    /\ last_call' = <<"compute_output">>
    /\ ret' = NoRet
    /\ UNCHANGED <<envVars, ivcVars, domain_size, z0, serVars, foldHist,
                   overflow_checks, panicked, histVars>>

\* ------------------------------------------------- the driver's boundary
\* The driver of the folding loop owns the iteration counter (a pub field):
\* at each iteration boundary, after reset_for_next_iteration, it adds one.
next_iteration ==
    /\ Running
    /\ current_iteration' = current_iteration + 1
    /\ last_call' = <<"next_iteration">>
    /\ ret' = NoRet
    /\ UNCHANGED <<idx_var, idx_var_pi, current_row, state, public_state,
                   current_instruction, r, witness,
                   serVars, ivcVars, foldHist, setupVars, overflow_checks, panicked,
                   histVars>>


\* ------------------------------------------------------ Env::bitmask_be
\* let diff = highest_bit - lowest_bit;   (u32)
bitmask_be_diff(highest_bit, lowest_bit) ==
    u32_wrapping_sub(highest_bit, lowest_bit)

\* rht = (1_usize << diff) - 1; lft = x >> lowest_bit; res = lft & rht
bitmask_be_res(x, highest_bit, lowest_bit) ==
    AndLowMask(Shr(x, lowest_bit), bitmask_be_diff(highest_bit, lowest_bit))

\* The panic bitmask_be ends in, "none" when it returns: the subtraction
\* (when the build checks overflow), assert!(diff <= 16, ...), then
\* write_column.
bitmask_be_panic(highest_bit, lowest_bit, col, checks) ==
    IF checks /\ highest_bit < lowest_bit THEN "overflow"
    ELSE IF bitmask_be_diff(highest_bit, lowest_bit) > 16 THEN "assertion"
    ELSE write_column_panic(col)

bitmask_be(x, highest_bit, lowest_bit, col) ==
    LET call == <<"bitmask_be", x, highest_bit, lowest_bit, col>>
        kind == bitmask_be_panic(highest_bit, lowest_bit, col, overflow_checks)
        res == bitmask_be_res(x, highest_bit, lowest_bit)
    IN  /\ Running
        /\ \/ /\ kind = "none"
              /\ state' = write_column_state(state, col, res)
              /\ written' = [written EXCEPT ![col.idx] = res]
              /\ ret' = <<"val", res>>
              /\ last_call' = call
              /\ UNCHANGED <<idx_var, idx_var_pi, current_row, public_state,
                             current_instruction, current_iteration, r, witness,
                             serVars, ivcVars, foldHist, setupVars, overflow_checks, panicked,
                             row_allocs, row_allocs_pi, flushed, trail>>
           \/ /\ kind # "none"
              /\ Panic(call, kind)

\* ---------------------------------------------------- Env::fetch_input
\* let x = BigUint::from(self.current_row as u64);
fetch_input_value(row) == row

\* self.write_column(col, x.clone()); x
fetch_input(col) ==
    LET call == <<"fetch_input", col>>
        x == fetch_input_value(current_row)
        kind == write_column_panic(col)
    IN  /\ Running
        /\ \/ /\ kind = "none"
              /\ state' = write_column_state(state, col, x)
              /\ written' = [written EXCEPT ![col.idx] = x]
              /\ ret' = <<"val", x>>
              /\ last_call' = call
              /\ UNCHANGED <<idx_var, idx_var_pi, current_row, public_state,
                             current_instruction, current_iteration, r, witness,
                             serVars, ivcVars, foldHist, setupVars, overflow_checks, panicked,
                             row_allocs, row_allocs_pi, flushed, trail>>
           \/ /\ kind # "none"
              /\ Panic(call, kind)

\* --------------------------------------------------------- Env::square
\* A faulty variant: the value is doubled.
square_res_doubled(x) == x + x

\* let res = x.clone() * x.clone();   (BigUint: no overflow)
square_res(x) == x * x

\* self.write_column(col, res.clone()); res
square(col, x) ==
    LET call == <<"square", col, x>>
        res == square_res(x)
        kind == write_column_panic(col)
    IN  /\ Running
        /\ \/ /\ kind = "none"
              /\ state' = write_column_state(state, col, res)
              /\ written' = [written EXCEPT ![col.idx] = res]
              /\ ret' = <<"val", res>>
              /\ last_call' = call
              /\ UNCHANGED <<idx_var, idx_var_pi, current_row, public_state,
                             current_instruction, current_iteration, r, witness,
                             serVars, ivcVars, foldHist, setupVars, overflow_checks, panicked,
                             row_allocs, row_allocs_pi, flushed, trail>>
           \/ /\ kind # "none"
              /\ Panic(call, kind)

\* A check that passes: the method returns () and has assigned nothing.
Passes(call) ==
    /\ last_call' = call
    /\ ret' = NoRet
    /\ UNCHANGED <<envVars, serVars, ivcVars, foldHist, setupVars, overflow_checks,
                   panicked, histVars>>

\* -------------------------------------------------- Env::range_check16
\* A faulty variant of the assertion: 2^16 itself is let through.
range_check16_holds_inclusive(x) == x <= 65536

\* assert!(x < BigUint::from(2_usize).pow(16));
range_check16_holds(x) == x < 65536

\* The panic range_check16(col) ends in, "none" when it returns:
\* let Column::X(idx) = col else { unimplemented!(...) }; then
\* self.state[idx] (an index past the array panics); then the assertion.
range_check16_panic(col, st) ==
    IF col.kind # "X" THEN "type_mismatch"
    ELSE IF col.idx >= NUMBER_OF_COLUMNS THEN "index_out_of_bounds"
    ELSE IF ~range_check16_holds(st[col.idx]) THEN "assertion"
    ELSE "none"

range_check16(col) ==
    LET call == <<"range_check16", col>>
        kind == range_check16_panic(col, state)
    IN  /\ Running
        /\ \/ /\ kind = "none"
              /\ Passes(call)
           \/ /\ kind # "none"
              /\ Panic(call, kind)

\* ---------------------------------------------- Env::constrain_boolean
\* A faulty variant of the assertion: 2 is let through.
constrain_boolean_holds_inclusive(x) == x <= 2

\* assert!(x < BigUint::from(2_usize));
constrain_boolean_holds(x) == x < 2

constrain_boolean(x) ==
    LET call == <<"constrain_boolean", x>>
    IN  /\ Running
        /\ \/ /\ constrain_boolean_holds(x)
              /\ Passes(call)
           \/ /\ ~constrain_boolean_holds(x)
              /\ Panic(call, "assertion")

\* ---------------------------------------------------- Env::assert_zero
\* assert_eq!(var, BigUint::from(0_usize));
assert_zero_holds(var) == var = 0

assert_zero(var) ==
    LET call == <<"assert_zero", var>>
    IN  /\ Running
        /\ \/ /\ assert_zero_holds(var)
              /\ Passes(call)
           \/ /\ ~assert_zero_holds(var)
              /\ Panic(call, "assertion")

\* --------------------------------------------------- Env::assert_equal
\* assert_eq!(x, y);
assert_equal_holds(x, y) == x = y

assert_equal(x, y) ==
    LET call == <<"assert_equal", x, y>>
    IN  /\ Running
        /\ \/ /\ assert_equal_holds(x, y)
              /\ Passes(call)
           \/ /\ ~assert_equal_holds(x, y)
              /\ Panic(call, "assertion")

\* ------------------------------------------- Env::coin_folding_combiner
\* A faulty variant: the sponge of the other curve is squeezed.
coin_folding_combiner_other_sponge(iteration) ==
    IF iteration % 2 = 0 THEN "e2" ELSE "e1"

\* if self.current_iteration % 2 == 0 { self.sponge_e1 ... } else { self.sponge_e2 ... }
coin_folding_combiner_sponge(iteration) ==
    IF iteration % 2 = 0 THEN "e1" ELSE "e2"

\* let Column::X(idx) = col else { unimplemented!(...) }; self.state[idx] = ...
coin_folding_combiner_panic(col) ==
    IF col.kind # "X" THEN "type_mismatch"
    ELSE IF col.idx >= NUMBER_OF_COLUMNS THEN "index_out_of_bounds"
    ELSE "none"

\* c is the challenge the squeezed sponge yields.  The sponge is squeezed
\* before the column is looked at, so a rejected call has squeezed it too.
coin_folding_combiner(col, c) ==
    LET call == <<"coin_folding_combiner", col>>
        sponge == coin_folding_combiner_sponge(current_iteration)
        kind == coin_folding_combiner_panic(col)
    IN  /\ Running
        /\ sponge_e1 + sponge_e2 < MaxSqueezes
        /\ sponge_e1' = IF sponge = "e1" THEN sponge_e1 + 1 ELSE sponge_e1
        /\ sponge_e2' = IF sponge = "e2" THEN sponge_e2 + 1 ELSE sponge_e2
        /\ last_call' = call
        /\ \/ /\ kind = "none"
              /\ state' = [state EXCEPT ![col.idx] = c]
              /\ written' = [written EXCEPT ![col.idx] = c]
              /\ r' = c
              /\ ret' = <<"val", c>>
              /\ chunks' = <<>>
              /\ UNCHANGED <<idx_var, idx_var_pi, current_row, public_state,
                             current_instruction, current_iteration, witness,
                             previous_commitments_e1, previous_commitments_e2,
                             comms, serVars, setupVars, overflow_checks, panicked,
                             row_allocs, row_allocs_pi, flushed, trail,
                             committed, carried>>
           \/ /\ kind # "none"
              /\ panicked' = kind
              /\ ret' = NoRet
              /\ UNCHANGED <<envVars, previous_commitments_e1,
                             previous_commitments_e2, comms, serVars,
                             setupVars, overflow_checks, histVars, foldHist>>

\* ------------------------ Env::get_sixteen_bits_chunks_folding_combiner
\* A faulty variant: the chunk starts one bit too high.
chunk_lowest_bit_off_by_one(i) == (16 * i + 1) % U32Modulus

\* self.bitmask_be(&r, 16 * (i + 1), 16 * i, pos)   (u32 arithmetic)
chunk_lowest_bit(i) == (16 * i) % U32Modulus

chunk_highest_bit(i) == (16 * (i + 1)) % U32Modulus

\* The panic the call ends in, "none" when it returns: the overflow of
\* 16 * (i + 1) (when the build checks it), then those of bitmask_be.
get_sixteen_bits_chunks_folding_combiner_panic(pos, i, checks) ==
    IF checks /\ 16 * (i + 1) >= U32Modulus THEN "overflow"
    ELSE bitmask_be_panic(chunk_highest_bit(i), chunk_lowest_bit(i), pos, checks)

get_sixteen_bits_chunks_folding_combiner(pos, i) ==
    LET call == <<"get_sixteen_bits_chunks_folding_combiner", pos, i>>
        kind == get_sixteen_bits_chunks_folding_combiner_panic(
                    pos, i, overflow_checks)
        res == bitmask_be_res(r, chunk_highest_bit(i), chunk_lowest_bit(i))
    IN  /\ Running
        /\ \/ /\ kind = "none"
              /\ state' = write_column_state(state, pos, res)
              /\ written' = [written EXCEPT ![pos.idx] = res]
              /\ ret' = <<"val", res>>
              /\ last_call' = call
              /\ chunks' = (i :> res) @@ chunks
              /\ UNCHANGED <<idx_var, idx_var_pi, current_row, public_state,
                             current_instruction, current_iteration, r, witness,
                             ivcVars, serVars, setupVars, overflow_checks, panicked,
                             row_allocs, row_allocs_pi, flushed, trail,
                             committed, carried>>
           \/ /\ kind # "none"
              /\ Panic(call, kind)

\* ------------------------- Env::compute_and_update_previous_commitments
\* A faulty variant: the branches are taken the other way round.
commit_curve_swapped(iteration) == IF iteration % 2 = 0 THEN "e2" ELSE "e1"

\* if self.current_iteration % 2 == 0 { <curve 1> } else { <curve 2> }
commit_curve(iteration) == IF iteration % 2 = 0 THEN "e1" ELSE "e2"

\* A faulty variant: each branch reduces into the other curve's field.
commit_modulus_swapped(curve) == IF curve = "e1" THEN FqModulus ELSE FpModulus

\* Fp::from_biguint in the first branch, Fq::from_biguint in the second
commit_modulus(curve) == IF curve = "e1" THEN FpModulus ELSE FqModulus

\* from_biguint(x) is Ok: the value is representable in the field.
from_biguint_ok(x, modulus) == x < modulus

\* evals.par_iter().map(|x| F::from_biguint(x).unwrap()): every cell of the
\* column reduces.
column_reduces(evals, modulus) ==
    \A row \in DOMAIN evals : from_biguint_ok(evals[row], modulus)

\* commit_evaluations_non_hiding(domain.d1, &evals): the commitment of an
\* evaluation vector, rows in row order.
Commit(curve, evals) == [curve |-> curve, point |-> <<"commit", evals>>]

\* The whole call, the columns committed in any order.
compute_and_update_previous_commitments ==
    LET call == <<"compute_and_update_previous_commitments">>
        curve == commit_curve(current_iteration)
        fresh == [i \in DOMAIN witness |-> Commit(curve, witness[i])]
    IN  /\ Running
        /\ Len(committed) < MaxCommits
        /\ \/ /\ \A i \in DOMAIN witness :
                     column_reduces(witness[i], commit_modulus(curve))
              /\ previous_commitments_e1' =
                     IF curve = "e1" THEN fresh ELSE previous_commitments_e1
              /\ previous_commitments_e2' =
                     IF curve = "e2" THEN fresh ELSE previous_commitments_e2
              /\ committed' = Append(committed, curve)
              /\ last_call' = call
              /\ ret' = NoRet
              /\ UNCHANGED <<envVars, sponge_e1, sponge_e2, comms, serVars,
                             setupVars, overflow_checks, panicked, histVars, chunks, carried>>
           \/ /\ \E i \in DOMAIN witness :
                     ~column_reduces(witness[i], commit_modulus(curve))
              /\ Panic(call, "reduction")

\* The same call step by step: the call starts, one worker per column commits
\* its column, the results are collected into the vector and installed.
compute_and_update_previous_commitments_start ==
    /\ Running
    /\ Len(committed) < MaxCommits
    /\ last_call # <<"compute_and_update_previous_commitments", "started">>
    /\ comms' = <<>>
    /\ last_call' = <<"compute_and_update_previous_commitments", "started">>
    /\ ret' = NoRet
    /\ UNCHANGED <<envVars, sponge_e1, sponge_e2, previous_commitments_e1,
                   previous_commitments_e2, serVars, setupVars, overflow_checks, panicked,
                   histVars, foldHist>>

\* .map(|evals| { ... commit_evaluations_non_hiding(...) }) on column i
compute_and_update_previous_commitments_worker(i) ==
    LET curve == commit_curve(current_iteration)
    IN  /\ Running
        /\ last_call = <<"compute_and_update_previous_commitments", "started">>
        /\ \A k \in DOMAIN comms : comms[k].column # i
        /\ \/ /\ column_reduces(witness[i], commit_modulus(curve))
              /\ comms' = Append(comms, [column |-> i,
                                         comm |-> Commit(curve, witness[i])])
              /\ UNCHANGED <<envVars, sponge_e1, sponge_e2,
                             previous_commitments_e1, previous_commitments_e2,
                             serVars, setupVars, overflow_checks, last_call, ret, panicked,
                             histVars, foldHist>>
           \/ /\ ~column_reduces(witness[i], commit_modulus(curve))
              /\ Panic(<<"compute_and_update_previous_commitments">>, "reduction")

\* A faulty variant: the results are kept in the order the workers finished.
collect_in_completion_order(results) ==
    [i \in 0 .. Len(results) - 1 |-> results[i + 1].comm]

\* .collect() of the (parallel) iterator: the results in column order.
collect(results) ==
    [i \in 0 .. Len(results) - 1 |->
        (CHOOSE e \in {results[k] : k \in DOMAIN results} : e.column = i).comm]

\* self.previous_commitments_e1 = comms  /  self.previous_commitments_e2 = comms
compute_and_update_previous_commitments_install ==
    LET curve == commit_curve(current_iteration)
    IN  /\ Running
        /\ last_call = <<"compute_and_update_previous_commitments", "started">>
        /\ {comms[k].column : k \in DOMAIN comms} = DOMAIN witness
        /\ previous_commitments_e1' =
               IF curve = "e1" THEN collect(comms) ELSE previous_commitments_e1
        /\ previous_commitments_e2' =
               IF curve = "e2" THEN collect(comms) ELSE previous_commitments_e2
        /\ committed' = Append(committed, curve)
        /\ last_call' = <<"compute_and_update_previous_commitments">>
        /\ ret' = NoRet
        /\ UNCHANGED <<envVars, sponge_e1, sponge_e2, comms, serVars,
                       setupVars, overflow_checks, panicked, histVars, chunks, carried>>

\* -------------------------------------------------- Env::fetch_instruction
fetch_instruction ==
    /\ Running
    /\ ret' = <<"instr", current_instruction>>
    /\ last_call' = <<"fetch_instruction">>
    /\ UNCHANGED <<envVars, serVars, ivcVars, foldHist, setupVars, overflow_checks, panicked, histVars>>

\* --------------------------------------------- Env::fetch_next_instruction
\* A faulty variant of the match: the sweep runs one chunk too far.
next_instruction_sweep_off_by_one(instr) ==
    CASE instr.tag = "SixteenBitsDecomposition" -> BitDecompositionFrom16Bits(0)
      [] instr.tag = "Poseidon" -> Poseidon(instr.i + 1)
      [] instr.tag = "BitDecompositionFrom16Bits" ->
             IF instr.i <= 15 THEN BitDecompositionFrom16Bits(instr.i + 1)
             ELSE SixteenBitsDecomposition

\* A faulty variant of the match: the sweep of the chunks ends in the hash.
next_instruction_sweep_ends_in_hash(instr) ==
    CASE instr.tag = "SixteenBitsDecomposition" -> BitDecompositionFrom16Bits(0)
      [] instr.tag = "Poseidon" -> Poseidon(instr.i + 1)
      [] instr.tag = "BitDecompositionFrom16Bits" ->
             IF instr.i < 15 THEN BitDecompositionFrom16Bits(instr.i + 1)
             ELSE Poseidon(0)

\* A faulty variant of the match: a Poseidon round is followed by itself.
next_instruction_round_repeats(instr) ==
    CASE instr.tag = "SixteenBitsDecomposition" -> BitDecompositionFrom16Bits(0)
      [] instr.tag = "Poseidon" -> Poseidon(instr.i)
      [] instr.tag = "BitDecompositionFrom16Bits" ->
             IF instr.i < 15 THEN BitDecompositionFrom16Bits(instr.i + 1)
             ELSE SixteenBitsDecomposition

\* match self.current_instruction { ... }: the value returned.
next_instruction(instr) ==
    CASE instr.tag = "SixteenBitsDecomposition" -> BitDecompositionFrom16Bits(0)
      [] instr.tag = "Poseidon" -> Poseidon(instr.i + 1)
      [] instr.tag = "BitDecompositionFrom16Bits" ->
             IF instr.i < 15 THEN BitDecompositionFrom16Bits(instr.i + 1)
             ELSE SixteenBitsDecomposition

\* A faulty variant: the method stores the successor it returns.
current_instruction_after_fetch_next_stored(cur, next) == next

\* self.current_instruction once the method has returned: the method takes
\* &mut self and assigns nothing.
current_instruction_after_fetch_next(cur, next) == cur

fetch_next_instruction ==
    /\ Running
    /\ ret' = <<"instr", next_instruction(current_instruction)>>
    /\ current_instruction' =
           current_instruction_after_fetch_next(
               current_instruction, next_instruction(current_instruction))
    /\ last_call' = <<"fetch_next_instruction">>
    /\ UNCHANGED <<idx_var, idx_var_pi, current_row, state, public_state,
                   current_iteration, r, witness,
                   serVars, ivcVars, foldHist, setupVars, overflow_checks, panicked, histVars>>

\* pub current_instruction: Instruction -- the caller stores the instruction
\* fetch_next_instruction has just returned (at most MaxApplied times).
set_current_instruction ==
    /\ Running
    /\ last_call = <<"fetch_next_instruction">>
    /\ Len(trail) <= MaxApplied
    /\ current_instruction' = ret[2]
    /\ trail' = Append(trail, ret[2])
    /\ last_call' = <<"set_current_instruction">>
    /\ ret' = NoRet
    /\ UNCHANGED <<idx_var, idx_var_pi, current_row, state, public_state,
                   current_iteration, r, witness,
                   serVars, ivcVars, foldHist, setupVars, overflow_checks, panicked,
                   row_allocs, row_allocs_pi, written, flushed>>

\* --------------------------------------- WitnessBuilderEnv::write_column
\* match position { Column::X(i) => ..., <the four lookup kinds> => panic!(...) }
WitnessBuilderEnv_write_column_accepts(position) == position.kind = "X"

\* self.witness.cols[i] = value  (an index past the array panics)
WitnessBuilderEnv_write_column_panic(position) ==
    IF ~WitnessBuilderEnv_write_column_accepts(position) THEN "type_mismatch"
    ELSE IF position.idx >= SER_N_COLUMNS THEN "index_out_of_bounds"
    ELSE "none"

WitnessBuilderEnv_write_column(position, value) ==
    /\ Running
    /\ \/ /\ WitnessBuilderEnv_write_column_panic(position) = "none"
          /\ ser_cols' = [ser_cols EXCEPT ![position.idx] = value]
          /\ ret' = NoRet
          /\ last_call' = <<"WitnessBuilderEnv::write_column", position, value>>
          /\ UNCHANGED <<envVars, lookupVars, ivcVars, foldHist, setupVars, overflow_checks, panicked, histVars>>
       \/ /\ WitnessBuilderEnv_write_column_panic(position) # "none"
          /\ Panic(<<"WitnessBuilderEnv::write_column", position, value>>,
                   WitnessBuilderEnv_write_column_panic(position))

\* ----------------------------------------- WitnessBuilderEnv::bitmask_be
\* let x_bytes_u8 = &x.to_bytes()[0..16]; u128::from_le_bytes(...): the 128
\* low bits of x
x_u128(x) == AndLowMask(x, 128)

\* The shift amount of `x_u128 >> lowest_bit` and of `1 << diff` when
\* overflow is not checked: the amount modulo the width of u128.
u128_shift_amount(n) == n % 128

\* The overflow checks a build with overflow checks makes, in evaluation
\* order: x_u128 >> lowest_bit, highest_bit - lowest_bit, 1 << diff.
WitnessBuilderEnv_bitmask_be_overflows(highest_bit, lowest_bit) ==
    \/ lowest_bit >= 128
    \/ highest_bit < lowest_bit
    \/ highest_bit - lowest_bit >= 128

\* (x_u128 >> lowest_bit) & ((1 << (highest_bit - lowest_bit)) - 1)
WitnessBuilderEnv_bitmask_be_res(x, highest_bit, lowest_bit) ==
    AndLowMask(Shr(x_u128(x), u128_shift_amount(lowest_bit)),
               u128_shift_amount(u32_wrapping_sub(highest_bit, lowest_bit)))

WitnessBuilderEnv_bitmask_be_panic(highest_bit, lowest_bit, position, checks) ==
    IF checks /\ WitnessBuilderEnv_bitmask_be_overflows(highest_bit, lowest_bit)
    THEN "overflow"
    ELSE WitnessBuilderEnv_write_column_panic(position)

WitnessBuilderEnv_bitmask_be(x, highest_bit, lowest_bit, position) ==
    LET call == <<"WitnessBuilderEnv::bitmask_be", x, highest_bit, lowest_bit,
                  position>>
        kind == WitnessBuilderEnv_bitmask_be_panic(highest_bit, lowest_bit,
                                                   position, overflow_checks)
        res == WitnessBuilderEnv_bitmask_be_res(x, highest_bit, lowest_bit)
    IN  /\ Running
        /\ \/ /\ kind = "none"
              /\ ser_cols' = [ser_cols EXCEPT ![position.idx] = res]
              /\ ret' = <<"val", res>>
              /\ last_call' = call
              /\ UNCHANGED <<envVars, lookupVars, ivcVars, foldHist, setupVars, overflow_checks, panicked, histVars>>
           \/ /\ kind # "none"
              /\ Panic(call, kind)

\* ------------------------------------------- WitnessBuilderEnv::lookup
\* table_id.ix_by_value(*value): the position of the value in the table.
\* The tables of the model list the values 0 .. length - 1 in order.
ix_by_value(table_id, value) == value

\* The Lookup pushed: Lookup { table_id, numerator: F::one(), value: vec![*value] }
Lookup(table_id, value) ==
    [table_id |-> table_id, numerator |-> 1, value |-> <<value>>]

\* self.lookup_multiplicities.get_mut(&table_id).unwrap()[value_ix] += F::one()
lookup_multiplicities_after_lookup(m, table_id, value_ix) ==
    [m EXCEPT ![table_id][value_ix] = m[table_id][value_ix] + 1]

WitnessBuilderEnv_lookup(table_id, value) ==
    LET call == <<"lookup", table_id, value>>
        value_ix == ix_by_value(table_id, value)
    IN  /\ Running
        /\ \/ /\ value_ix \in DOMAIN lookup_multiplicities[table_id]
              /\ lookup_multiplicities' =
                     lookup_multiplicities_after_lookup(
                         lookup_multiplicities, table_id, value_ix)
              /\ lookups' = [lookups EXCEPT ![table_id] =
                                Append(lookups[table_id], Lookup(table_id, value))]
              /\ lookup_calls' = [lookup_calls EXCEPT ![table_id] = @ + 1]
              /\ last_call' = call
              /\ ret' = NoRet
              /\ UNCHANGED <<envVars, ivcVars, ser_cols, foldHist, setupVars,
                             overflow_checks, panicked, histVars>>
           \/ \* [value_ix] past the end of the Vec
              /\ value_ix \notin DOMAIN lookup_multiplicities[table_id]
              /\ Panic(call, "index_out_of_bounds")

\* -------------------------------------------- WitnessBuilderEnv::reset
\* A faulty variant: the multiplicities are reset with the lookups.
WitnessBuilderEnv_reset_multiplicities_zeroed(m) ==
    [t \in DOMAIN m |-> [k \in DOMAIN m[t] |-> 0]]

\* lookup_multiplicities after reset: the method assigns the lists of
\* lookups, never the multiplicities.
WitnessBuilderEnv_reset_multiplicities(m) == m

\* for table in self.lookups.values_mut() { *table = Vec::new(); }
WitnessBuilderEnv_reset ==
    /\ Running
    /\ lookups' = [t \in DOMAIN lookups |-> <<>>]
    /\ lookup_multiplicities' =
           WitnessBuilderEnv_reset_multiplicities(lookup_multiplicities)
    /\ last_call' = <<"WitnessBuilderEnv::reset">>
    /\ ret' = NoRet
    /\ UNCHANGED <<envVars, ivcVars, ser_cols, lookup_calls, foldHist,
                   setupVars, overflow_checks, panicked, histVars>>

\* ------------------------ WitnessBuilderEnv::get_lookup_multiplicities
\* A faulty variant: one dummy value too many.
n_repeated_dummy_value_one_more(size, length) == size - length

\* let n_repeated_dummy_value: usize = (domain.d1.size as usize) - table_id.length() - 1;
n_repeated_dummy_value(size, length) == size - length - 1

\* self.lookup_multiplicities[&table_id].to_vec()
to_vec(a) == [k \in 1 .. Cardinality(DOMAIN a) |-> a[k - 1]]

\* The vector m just before the final assertion.  -F::one() is written -1.
get_lookup_multiplicities_m(size, table_id) ==
    LET length == table_length(table_id)
        recorded == to_vec(lookup_multiplicities[table_id])
        n == n_repeated_dummy_value(size, length)
    IN  IF length < size
        THEN recorded \o [k \in 1 .. n |-> -1] \o <<n>>
        ELSE recorded

get_lookup_multiplicities(size, table_id) ==
    LET call == <<"get_lookup_multiplicities", size, table_id>>
        m == get_lookup_multiplicities_m(size, table_id)
    IN  /\ Running
        /\ \/ \* assert_eq!(m.len(), domain.d1.size as usize)
              /\ Len(m) = size
              /\ ret' = <<"vec", m>>
              /\ last_call' = call
              /\ UNCHANGED <<envVars, ivcVars, serVars, foldHist, setupVars,
                             overflow_checks, panicked, histVars>>
           \/ /\ Len(m) # size
              /\ Panic(call, "assertion")

\* --------------------------------------------------------- specifications
\* A fresh Env and a fresh WitnessBuilderEnv, in either build.
Init ==
    /\ new
    /\ create
    /\ Fresh
    /\ overflow_checks \in BOOLEAN

\* Allocation cursors over rows and iterations: any order of calls to
\* allocate, allocate_public_input, reset and reset_for_next_iteration.
NextAlloc ==
    \/ allocate
    \/ allocate_public_input
    \/ reset
    \/ reset_for_next_iteration

SpecAlloc == Init /\ [][NextAlloc]_vars

\* The columns a caller can name: every valid one and, per kind, ExtraIndex
\* indices past the last valid one.
EnvColumns ==
    {X(i) : i \in 0 .. NUMBER_OF_COLUMNS - 1 + ExtraIndex}
        \cup {PublicInput(i) : i \in 0 .. NUMBER_OF_PUBLIC_INPUTS - 1 + ExtraIndex}

\* The values the row-building checks write.
Values == {0, 1}

\* The cells of the row state.
PrivateColumns == {X(i) : i \in 0 .. NUMBER_OF_COLUMNS - 1}

PublicInputColumns == {PublicInput(i) : i \in 0 .. NUMBER_OF_PUBLIC_INPUTS - 1}

\* No step of the row-building specifications can overflow: one build
\* stands for both.
InitRow == Init /\ overflow_checks = TRUE

\* Building the rows of one iteration: any order of allocations, writes to
\* the private cells and reset, while a row of the domain is left to build;
\* then one reset too many.
NextRow ==
    \/ /\ current_row < srs_size
       /\ allocate
    \/ /\ current_row < srs_size
       /\ allocate_public_input
    \/ /\ current_row < srs_size
       /\ \E col \in PrivateColumns, v \in Values : write_column(col, v)
    \/ reset

SpecRow == InitRow /\ [][NextRow]_vars

\* The whole row state over the rows of one iteration: any order of writes
\* to the private and the public-input cells and of reset.
NextRowState ==
    \/ \E col \in PrivateColumns, v \in Values : write_column(col, v)
    \/ \E col \in PublicInputColumns, v \in Values : write_public_input(col, v)
    \/ reset

SpecRowState == InitRow /\ [][NextRowState]_vars

\* The positions a caller of the serialization builder can name: witness
\* cells (valid and past the end) and the lookup-related kinds.
SerColumns ==
    {X(i) : i \in 0 .. SER_N_COLUMNS - 1 + ExtraIndex}
        \cup {LookupPartialSum(0), LookupMultiplicity(0), LookupAggregation,
              LookupFixedTable(0)}

\* The write paths of both builders, with every column a caller can name.
NextWrite ==
    \/ \E col \in EnvColumns, v \in Values : write_column(col, v)
    \/ \E col \in EnvColumns, v \in Values : write_public_input(col, v)
    \/ \E col \in SerColumns, v \in Values : WitnessBuilderEnv_write_column(col, v)

SpecWrite == InitRow /\ [][NextWrite]_vars

\* The values of Instruction the sequencer checks start from: the
\* decomposition instructions and the Poseidon rounds up to MaxRound.  (The
\* round index is a natural number, as in the design; the enum's integer
\* type is declared in interpreter.rs.)
Instructions ==
    {SixteenBitsDecomposition}
        \cup {BitDecompositionFrom16Bits(i) : i \in 0 .. 15}
        \cup {Poseidon(i) : i \in 0 .. MaxRound}

\* An Env whose current_instruction (a pub field) holds any instruction.
InitSeq ==
    /\ idx_var = 0
    /\ idx_var_pi = 0
    /\ current_row = 0
    /\ state = ZeroArray(NUMBER_OF_COLUMNS)
    /\ public_state = ZeroArray(NUMBER_OF_PUBLIC_INPUTS)
    /\ current_instruction \in Instructions
    /\ current_iteration = 0
    /\ r = 0
    /\ witness = new_witness
    /\ new_ivc
    /\ new_domains(srs_size)
    /\ new_inputs(0)
    /\ create
    /\ Fresh
    /\ overflow_checks = TRUE

\* The sequencer: reading the instruction, computing its successor, and the
\* caller storing the successor back.
NextSeq ==
    \/ fetch_instruction
    \/ fetch_next_instruction
    \/ set_current_instruction

SpecSeq == InitSeq /\ [][NextSeq]_vars

\* The inputs of the bit-mask checks: values below 2^XBits, and bit
\* positions around each boundary the code has (0, the value's width, the
\* 16-bit limb, the width of u128, the end of u32).
XValues == {0, 1, Pow2(16) - 1, Pow2(16), 43981, Pow2(XBits) - 1,
            Pow2(XBits) - Pow2(XBits - 3) + 5}

BitPositions ==
    (0 .. XBits + 17) \cup (126 .. 130) \cup {144, 145}
        \cup (U32Max - 17 .. U32Max)

\* Both builders with every cell holding a value written earlier, in either
\* build.
InitBits ==
    /\ idx_var = 0
    /\ idx_var_pi = 0
    /\ current_row = 0
    /\ state = [i \in 0 .. NUMBER_OF_COLUMNS - 1 |-> 1]
    /\ public_state = [i \in 0 .. NUMBER_OF_PUBLIC_INPUTS - 1 |-> 1]
    /\ current_instruction = SixteenBitsDecomposition
    /\ current_iteration = 0
    /\ r = 0
    /\ witness = new_witness
    /\ new_ivc
    /\ new_domains(srs_size)
    /\ new_inputs(0)
    /\ ser_cols = [i \in 0 .. SER_N_COLUMNS - 1 |-> 1]
    /\ create_lookups
    /\ overflow_checks \in BOOLEAN
    /\ last_call = <<"new">>
    /\ ret = NoRet
    /\ panicked = "none"
    /\ row_allocs = <<>>
    /\ row_allocs_pi = <<>>
    /\ written = state
    /\ flushed = <<>>
    /\ trail = <<current_instruction>>
    /\ chunks = <<>>
    /\ committed = <<>>
    /\ carried = <<>>

\* One call of either bitmask_be, with any of the inputs.
NextBits ==
    \/ /\ last_call = <<"new">>
       /\ \E x \in XValues, h \in BitPositions, l \in BitPositions,
             col \in PrivateColumns \cup {X(NUMBER_OF_COLUMNS), PublicInput(0)} :
              bitmask_be(x, h, l, col)
    \/ /\ last_call = <<"new">>
       /\ \E x \in XValues, h \in BitPositions, l \in BitPositions,
             col \in {X(i) : i \in 0 .. SER_N_COLUMNS} \cup {LookupAggregation} :
              WitnessBuilderEnv_bitmask_be(x, h, l, col)

SpecBits == InitBits /\ [][NextBits]_vars

\* The challenges the sponges yield in the folding checks: values of one
\* and of two 16-bit chunks.
Challenges == {0, 1, 65535, 65536, 305441741, 1073741823}

\* An Env at any of the first iterations (current_iteration is a pub field).
InitFold ==
    /\ idx_var = 0
    /\ idx_var_pi = 0
    /\ current_row = 0
    /\ state = ZeroArray(NUMBER_OF_COLUMNS)
    /\ public_state = ZeroArray(NUMBER_OF_PUBLIC_INPUTS)
    /\ current_instruction = SixteenBitsDecomposition
    /\ current_iteration \in 0 .. MaxIteration
    /\ r = 0
    /\ witness = new_witness
    /\ new_ivc
    /\ new_domains(srs_size)
    /\ new_inputs(0)
    /\ create
    /\ Fresh
    /\ overflow_checks \in BOOLEAN

\* Deriving the combiner and extracting its chunks, in any order.
NextFold ==
    \/ \E col \in {X(0), X(NUMBER_OF_COLUMNS), PublicInput(0)}, c \in Challenges :
           coin_folding_combiner(col, c)
    \/ \E pos \in {X(NUMBER_OF_COLUMNS - 1), X(NUMBER_OF_COLUMNS), PublicInput(0)},
          i \in 0 .. MaxChunk :
           get_sixteen_bits_chunks_folding_combiner(pos, i)

SpecFold == InitFold /\ [][NextFold]_vars

\* The values of the commitment checks: below both moduli, between them,
\* and above both.
LargeValues == {FpModulus - 1, FpModulus, FqModulus}

\* A witness table of small values with distinct columns ...
small_witness ==
    [i \in 0 .. NUMBER_OF_COLUMNS - 1 |->
        [row \in 0 .. srs_size - 1 |-> (i + row) % 2]]

\* ... and one cell of it, in any column and row, holding any of the values.
InitCommit ==
    /\ idx_var = 0
    /\ idx_var_pi = 0
    /\ current_row = 0
    /\ state = ZeroArray(NUMBER_OF_COLUMNS)
    /\ public_state = ZeroArray(NUMBER_OF_PUBLIC_INPUTS)
    /\ current_instruction = SixteenBitsDecomposition
    /\ current_iteration \in 0 .. MaxIteration
    /\ r = 0
    /\ \E i \in 0 .. NUMBER_OF_COLUMNS - 1, row \in 0 .. srs_size - 1,
          v \in LargeValues :
           witness = [small_witness EXCEPT ![i][row] = v]
    /\ new_ivc
    /\ new_domains(srs_size)
    /\ new_inputs(0)
    /\ create
    /\ Fresh
    /\ overflow_checks = TRUE

\* Committing at any point of row building.  A row is built in a gadget's
\* order: public-input columns, private columns, the writes, the flush.
NextCommit ==
    \/ /\ idx_var = 0
       /\ allocate_public_input
    \/ /\ idx_var_pi = 1
       /\ idx_var = 0
       /\ write_public_input(PublicInput(0), 1)
    \/ /\ idx_var_pi = 1
       /\ allocate
    \/ /\ idx_var = 1
       /\ \E v \in {1, FpModulus} : write_column(X(0), v)
    \/ /\ last_call[1] = "write_column"
       /\ reset
    \/ compute_and_update_previous_commitments

SpecCommit == InitCommit /\ [][NextCommit]_vars

\* One commitment call at a time, its workers in any order.
NextCommitPar ==
    \/ compute_and_update_previous_commitments_start
    \/ \E i \in 0 .. NUMBER_OF_COLUMNS - 1 :
           compute_and_update_previous_commitments_worker(i)
    \/ compute_and_update_previous_commitments_install

SpecCommitPar == InitCommit /\ [][NextCommitPar]_vars

\* The driver: the rows of an iteration, the commitments, the reset for the
\* next iteration, again and again.
NextDriver ==
    \/ /\ current_row < srs_size
       /\ last_call[1] \in {"new", "reset", "next_iteration"}
       /\ \E v \in Values : write_column(X(0), v)
    \/ /\ current_row < srs_size
       /\ last_call[1] = "write_column"
       /\ reset
    \/ /\ current_row = srs_size
       /\ last_call[1] = "reset"
       /\ compute_and_update_previous_commitments
    \/ /\ last_call[1] = "compute_and_update_previous_commitments"
       /\ reset_for_next_iteration
    \/ /\ last_call[1] = "reset_for_next_iteration"
       /\ next_iteration

SpecDriver == InitRow /\ [][NextDriver]_vars

\* The domain size of the end-to-end trace.
trace_size == Pow2(TraceLog2Size)

\* Env::new(srs_log2_size = TraceLog2Size, ...)
InitTrace ==
    /\ new_env(TraceLog2Size, 0)
    /\ create
    /\ Fresh
    /\ overflow_checks = TRUE

\* The end-to-end trace: each row cycle allocates some columns, fetches the
\* input into a column, squares what was fetched into private column 0, and
\* flushes the row.
NextTrace ==
    \/ /\ last_call[1] \in {"new", "reset", "allocate"}
       /\ current_row < trace_size
       /\ allocate
    \/ /\ last_call[1] \in {"new", "reset", "allocate"}
       /\ current_row < trace_size
       /\ \E col \in EnvColumns : fetch_input(col)
    \/ /\ last_call[1] = "fetch_input"
       /\ Running
       /\ square(X(0), ret[2])
    \/ /\ last_call[1] = "square"
       /\ reset

SpecTrace == InitTrace /\ [][NextTrace]_vars

\* The values the checks are made on: around the boolean bound and around
\* the 16-bit bound.
CheckValues == {0, 1, 2, 65535, 65536}

\* The value assertions and the range check, on a row state a caller has
\* written any of the values to.
NextChecks ==
    \/ \E col \in PrivateColumns, v \in CheckValues : write_column(col, v)
    \/ \E v \in {1, 65536} : write_public_input(PublicInput(0), v)
    \/ \E col \in EnvColumns : range_check16(col)
    \/ \E v \in CheckValues : constrain_boolean(v)
    \/ \E v \in CheckValues : assert_zero(v)
    \/ \E x \in CheckValues, y \in CheckValues : assert_equal(x, y)

SpecChecks == InitRow /\ [][NextChecks]_vars

\* The challenges of the runs across an iteration boundary: one of one
\* chunk, one of two.
CarriedChallenges == {65535, 305441741}

\* Across the iteration boundary: before it each row derives the combiner
\* into column 0 and is flushed; reset_for_next_iteration and the driver's
\* increment begin the next iteration, whose rows extract a chunk of the
\* combiner into the last column, or derive a new combiner, and are flushed.
NextCarry ==
    \/ /\ last_call[1] \in {"new", "reset", "next_iteration"}
       /\ current_row < srs_size
       /\ \E c \in CarriedChallenges : coin_folding_combiner(X(0), c)
    \/ /\ last_call[1] \in {"reset", "next_iteration"}
       /\ carried # <<>>
       /\ current_row < srs_size
       /\ \E i \in 0 .. MaxChunk :
              get_sixteen_bits_chunks_folding_combiner(X(NUMBER_OF_COLUMNS - 1), i)
    \/ /\ last_call[1] \in {"coin_folding_combiner",
                             "get_sixteen_bits_chunks_folding_combiner"}
       /\ reset
    \/ /\ last_call[1] = "reset"
       /\ carried = <<>>
       /\ reset_for_next_iteration
    \/ /\ last_call[1] = "reset_for_next_iteration"
       /\ next_iteration

SpecCarry == InitRow /\ [][NextCarry]_vars

\* The sizes of the evaluation domains: powers of two.
DomainSizes == {Pow2(k) : k \in 0 .. MaxDomainLog2}

\* The values looked up in a table: its entries and, past its end,
\* ExtraIndex more.
LookupValues(table_id) == 0 .. table_length(table_id) - 1 + ExtraIndex

\* The lookups of the serialization builder: lookups on every table, resets,
\* and the multiplicities asked for on every domain.
NextLookup ==
    \/ /\ lookup_calls["RangeCheckA"] + lookup_calls["RangeCheckB"] < MaxLookups
       /\ \E t \in LookupTables : \E v \in LookupValues(t) :
              WitnessBuilderEnv_lookup(t, v)
    \/ /\ last_call[1] = "lookup"
       /\ WitnessBuilderEnv_reset
    \/ /\ last_call[1] # "get_lookup_multiplicities"
       /\ \E size \in DomainSizes, t \in LookupTables :
              get_lookup_multiplicities(size, t)

SpecLookup == InitRow /\ [][NextLookup]_vars

\* The initial inputs z0 an Env is constructed with.
InitialInputs == {0, 1, 42}

\* Env::new with any domain size and any initial input, and a fresh
\* WitnessBuilderEnv.
InitNew ==
    /\ \E srs_log2_size \in 0 .. MaxLog2Size, z \in InitialInputs :
           new_env(srs_log2_size, z)
    /\ create
    /\ Fresh
    /\ overflow_checks = TRUE

\* A constructed environment in use: rows are written and flushed up to the
\* end of the domain and one past it, the output is computed, and a second
\* iteration is begun, whose rows are flushed as they are.
NextNew ==
    \/ /\ last_call[1] \in {"new", "reset", "compute_output"}
       /\ carried = <<>>
       /\ current_row < domain_size
       /\ \E v \in Values : write_column(X(0), v)
    \/ /\ last_call[1] \in {"write_column", "reset", "reset_for_next_iteration"}
       /\ reset
    \/ /\ last_call[1] \in {"new", "reset"}
       /\ zi # 42
       /\ compute_output
    \/ /\ last_call[1] = "reset"
       /\ carried = <<>>
       /\ reset_for_next_iteration

SpecNew == InitNew /\ [][NextNew]_vars

\* ----------------------------------------------------------------- claims
\* X(0), ..., X(n-1) in order
FirstColumns(n) == [k \in 1 .. n |-> X(k - 1)]

FirstPublicInputs(n) == [k \in 1 .. n |-> PublicInput(k - 1)]

\* C3. Column capacity: the columns allocate() has returned in the current
\* row are X(0), X(1), ... in call order, never more than NUMBER_OF_COLUMNS
\* of them; a call returns the column it appends; a call fails, with the
\* capacity panic, only when NUMBER_OF_COLUMNS columns are out already; and
\* a new row (after reset) starts again from X(0).
C3_ColumnCapacity ==
    /\ Len(row_allocs) <= NUMBER_OF_COLUMNS
    /\ row_allocs = FirstColumns(Len(row_allocs))
    /\ (last_call = <<"allocate">> /\ Running) =>
           /\ Len(row_allocs) >= 1
           /\ ret = <<"col", row_allocs[Len(row_allocs)]>>
    /\ (last_call = <<"allocate">> /\ ~Running) =>
           /\ panicked = "capacity"
           /\ Len(row_allocs) = NUMBER_OF_COLUMNS
    /\ (last_call = <<"reset">> /\ Running) => row_allocs = <<>>

\* C3 witness: a full row of allocations was made, the row was advanced, and
\* allocate() has just returned X(0) again in the next row.
C3_Witness ==
    /\ Len(flushed) >= 1
    /\ last_call = <<"allocate">>
    /\ Running
    /\ ret = <<"col", X(0)>>
    /\ row_allocs = <<X(0)>>

\* C4. allocate_public_input() is symmetric over the public-input space:
\* the columns it has returned in the current row are PublicInput(0),
\* PublicInput(1), ... in call order, at most NUMBER_OF_PUBLIC_INPUTS of
\* them; it fails, with the capacity panic, only when
\* NUMBER_OF_PUBLIC_INPUTS are out already in this row; and each cursor
\* counts the calls of its own allocator in the row, never the other's.
C4_PublicInputCapacity ==
    /\ idx_var = Len(row_allocs)
    /\ idx_var_pi = Len(row_allocs_pi)
    /\ Len(row_allocs_pi) <= NUMBER_OF_PUBLIC_INPUTS
    /\ row_allocs_pi = FirstPublicInputs(Len(row_allocs_pi))
    /\ (last_call = <<"allocate_public_input">> /\ Running) =>
           /\ Len(row_allocs_pi) >= 1
           /\ ret = <<"col", row_allocs_pi[Len(row_allocs_pi)]>>
    /\ (last_call = <<"allocate_public_input">> /\ ~Running) =>
           /\ panicked = "capacity"
           /\ Len(row_allocs_pi) = NUMBER_OF_PUBLIC_INPUTS


\* C1. Row completeness: after reset has been called k times in an iteration
\* (k <= srs_size), each row j < k of the witness table holds, for every
\* private column, the value last written to that column's cell before the
\* call that flushed row j (0 if never written); and immediately after the
\* k-th call the row index is k and both allocation cursors are 0.
C1_RowCompleteness ==
    /\ Len(flushed) <= srs_size
    /\ \A k \in 1 .. Len(flushed) :
           \A i \in 0 .. NUMBER_OF_COLUMNS - 1 :
               witness[i][k - 1] = flushed[k][i]
    /\ (last_call = <<"reset">> /\ Running) =>
           /\ current_row = Len(flushed)
           /\ idx_var = 0
           /\ idx_var_pi = 0

\* C1 witness: every row of the domain has been flushed, the last one with a
\* non-zero value written to its last column after columns of both kinds
\* were allocated, and an earlier row holds a different value there.
C1_Witness ==
    /\ last_call = <<"reset">>
    /\ Running
    /\ Len(flushed) = srs_size
    /\ witness[NUMBER_OF_COLUMNS - 1][srs_size - 1] = 1
    /\ witness[NUMBER_OF_COLUMNS - 1][0] = 0
    /\ witness[0][0] = 1

\* C2. The whole row state is zeroed when a row completes: immediately
\* after every reset, all private cells and all public-input cells are 0.
C2_RowStateZeroed ==
    (last_call = <<"reset">> /\ Running) =>
        /\ \A i \in 0 .. NUMBER_OF_COLUMNS - 1 : state[i] = 0
        /\ \A i \in 0 .. NUMBER_OF_PUBLIC_INPUTS - 1 : public_state[i] = 0


\* The call just made is one of the write paths.
IsWrite(call) ==
    call[1] \in {"write_column", "write_public_input",
                 "WitnessBuilderEnv::write_column"}

\* C5 as claimed: a write stores the value whenever the column addresses a
\* private-witness or a public-input cell, and is rejected with the
\* type-mismatch panic exactly when the column is of any other kind.
C5_WriteAsClaimed ==
    IsWrite(last_call) =>
        LET col == last_call[2]
            witness_kind == col.kind \in {"X", "PublicInput"}
        IN  /\ (panicked = "type_mismatch") <=> ~witness_kind
            /\ (/\ col.kind = "X"
                /\ col.idx < NUMBER_OF_COLUMNS
                /\ last_call[1] # "WitnessBuilderEnv::write_column")
                   => (Running /\ state[col.idx] = last_call[3])
            /\ (col.kind = "PublicInput" /\ col.idx < NUMBER_OF_PUBLIC_INPUTS)
                   => (Running /\ public_state[col.idx] = last_call[3])

\* What one write step does, per path.  `cells` is the array the path owns,
\* `kind` the column kind it accepts.
WriteStepOk(call, kind, cells, cells_next, others_unchanged, returns) ==
    LET col == call[2]
        v == call[3]
    IN  IF col.kind = kind /\ col.idx \in DOMAIN cells
        THEN /\ panicked' = "none"
             /\ cells_next = [cells EXCEPT ![col.idx] = v]
             /\ others_unchanged
             /\ returns => ret' = <<"val", v>>
        ELSE /\ panicked' = IF col.kind = kind THEN "index_out_of_bounds"
                            ELSE "type_mismatch"
             /\ cells_next = cells
             /\ others_unchanged

C5_WriteStep ==
    LET call == last_call'
    IN  /\ call[1] = "write_column" =>
               WriteStepOk(call, "X", state, state',
                           public_state' = public_state /\ ser_cols' = ser_cols,
                           TRUE)
        /\ call[1] = "write_public_input" =>
               WriteStepOk(call, "PublicInput", public_state, public_state',
                           state' = state /\ ser_cols' = ser_cols, TRUE)
        /\ call[1] = "WitnessBuilderEnv::write_column" =>
               WriteStepOk(call, "X", ser_cols, ser_cols',
                           state' = state /\ public_state' = public_state,
                           FALSE)

\* C5, amended.  Each write path owns one array and accepts one column kind:
\* write_column the private cells (X), write_public_input the public-input
\* cells (PublicInput), WitnessBuilderEnv::write_column the serialization
\* row (X).  A call with a column of the path's kind and an index inside
\* the array stores the value in that cell, leaves every other cell of
\* every array unchanged and (Env paths) returns the value; a call with a
\* column of any other kind -- the other witness kind included -- is
\* rejected with the type-mismatch panic, and one with an index past the
\* array with the bounds panic, both changing no cell.
C5_WritePaths == [][C5_WriteStep]_vars

\* C5 witness: write_public_input has stored a non-zero value in the last
\* public-input cell while a private cell and a serialization cell written
\* earlier keep their values.
C5_Witness ==
    /\ last_call = <<"write_public_input",
                     PublicInput(NUMBER_OF_PUBLIC_INPUTS - 1), 1>>
    /\ Running
    /\ ret = <<"val", 1>>
    /\ public_state[NUMBER_OF_PUBLIC_INPUTS - 1] = 1
    /\ state[0] = 1
    /\ ser_cols[SER_N_COLUMNS - 1] = 1


\* C6. Instruction cycle: starting from SixteenBitsDecomposition, the
\* instruction after n applications of the transition function is
\* SixteenBitsDecomposition exactly when n is a multiple of 17: 17
\* applications return to it and no smaller positive number does.
C6_InstructionCycle ==
    trail[1] = SixteenBitsDecomposition =>
        \A k \in 1 .. Len(trail) :
            (trail[k] = SixteenBitsDecomposition) <=> ((k - 1) % 17 = 0)

\* C6 witness: 17 applications from SixteenBitsDecomposition.
C6_Witness ==
    /\ trail[1] = SixteenBitsDecomposition
    /\ Len(trail) = 18
    /\ trail[18] = SixteenBitsDecomposition
    /\ current_instruction = SixteenBitsDecomposition

\* The transition table of the design.
TransitionTable(instr) ==
    IF instr = SixteenBitsDecomposition THEN BitDecompositionFrom16Bits(0)
    ELSE IF instr.tag = "BitDecompositionFrom16Bits" /\ instr.i < 15
         THEN BitDecompositionFrom16Bits(instr.i + 1)
    ELSE IF instr = BitDecompositionFrom16Bits(15) THEN SixteenBitsDecomposition
    ELSE Poseidon(instr.i + 1)

\* C7. fetch_next_instruction returns the table's successor of the current
\* instruction, for every instruction.
C7_TransitionTable ==
    (last_call = <<"fetch_next_instruction">>) =>
        ret = <<"instr", TransitionTable(current_instruction)>>

\* C7 witness: the loop-closing edge and a Poseidon round were both taken.
C7_Witness ==
    /\ last_call = <<"fetch_next_instruction">>
    /\ current_instruction = Poseidon(MaxRound + 1)
    /\ ret = <<"instr", Poseidon(MaxRound + 2)>>

\* An instruction value, whatever its index.
IsInstruction(x) ==
    /\ DOMAIN x = {"tag", "i"}
    /\ x.tag \in {"SixteenBitsDecomposition", "BitDecompositionFrom16Bits", "Poseidon"}
    /\ x.i \in Nat
    /\ x.tag = "SixteenBitsDecomposition" => x.i = 0

C8_Step ==
    /\ last_call'[1] = "fetch_next_instruction" =>
           /\ panicked' = "none"
           /\ ret'[1] = "instr"
           /\ IsInstruction(ret'[2])
           /\ UNCHANGED <<envVars, ivcVars, setupVars, serVars>>
    /\ last_call'[1] = "fetch_instruction" =>
           /\ ret' = <<"instr", trail[Len(trail)]>>
           /\ UNCHANGED <<envVars, ivcVars, setupVars, serVars>>

Bit(x, k) == IF k >= 31 THEN 0 ELSE (x \div Pow2(k)) % 2

\* The reference bit slice: bits lowest_bit .. highest_bit - 1 of x, bit
\* lowest_bit first.
RECURSIVE BitSlice(_, _, _)
BitSlice(x, highest_bit, lowest_bit) ==
    IF highest_bit <= lowest_bit THEN 0
    ELSE Bit(x, lowest_bit) + 2 * BitSlice(x, highest_bit, lowest_bit + 1)

\* The cell a bitmask_be call was asked to write, when there is one.
BitmaskCell(call) ==
    IF call[1] = "bitmask_be" THEN state[call[5].idx] ELSE ser_cols[call[5].idx]

BitmaskCellExists(call) ==
    /\ call[5].kind = "X"
    /\ call[5].idx < (IF call[1] = "bitmask_be" THEN NUMBER_OF_COLUMNS
                      ELSE SER_N_COLUMNS)

\* C9. Bitmask correctness, as claimed: for every x < 2^128 and every
\* 0 <= lowest_bit < highest_bit <= lowest_bit + 16, bitmask_be returns the
\* reference bit slice of x and the cell at col holds the returned value
\* afterwards (both builders' bitmask_be, col a cell of the builder).
C9_BitmaskAsClaimed ==
    (last_call[1] \in {"bitmask_be", "WitnessBuilderEnv::bitmask_be"}
        /\ BitmaskCellExists(last_call)
        /\ last_call[4] < last_call[3]
        /\ last_call[3] <= last_call[4] + 16) =>
            /\ Running
            /\ ret = <<"val", BitSlice(last_call[2], last_call[3], last_call[4])>>
            /\ BitmaskCell(last_call) = ret[2]

\* C9, the part the code meets: Env::bitmask_be, in either build.
C9_EnvBitmask ==
    (last_call[1] = "bitmask_be"
        /\ BitmaskCellExists(last_call)
        /\ last_call[4] < last_call[3]
        /\ last_call[3] <= last_call[4] + 16) =>
            /\ Running
            /\ ret = <<"val", BitSlice(last_call[2], last_call[3], last_call[4])>>
            /\ BitmaskCell(last_call) = ret[2]

C10_Step ==
    LET highest_bit == last_call'[3]
        lowest_bit == last_call'[4]
    IN  last_call'[1] = "bitmask_be" =>
            /\ panicked' = "none" =>
                   (lowest_bit <= highest_bit /\ highest_bit <= lowest_bit + 16)
            /\ (highest_bit < lowest_bit \/ highest_bit - lowest_bit > 16) =>
                   /\ panicked' # "none"
                   /\ state' = state
                   /\ public_state' = public_state

\* C10. Env::bitmask_be enforces its width precondition, as claimed: it
\* completes only when lowest_bit <= highest_bit <= lowest_bit + 16, and
\* when highest_bit - lowest_bit > 16 or highest_bit < lowest_bit it aborts
\* and leaves the row state unchanged.
C10_WidthPrecondition == [][C10_Step]_vars


\* The chunks 0 .. k - 1 put back together, chunk 0 lowest.
RECURSIVE Reassemble(_, _)
Reassemble(i, k) ==
    IF i >= k THEN 0 ELSE chunks[i] + Pow2(16) * Reassemble(i + 1, k)

\* C11. Chunked combiner round-trip: with the combiner r stored by
\* coin_folding_combiner, every chunk get_sixteen_bits_chunks_folding_combiner
\* returns is below 2^16 and is the value recorded for its index, and
\* whenever r < 2^(16k) and the chunks 0 .. k-1 have been extracted, they
\* reassemble to the r that is still stored.
C11_CombinerRoundTrip ==
    /\ \A i \in DOMAIN chunks : chunks[i] < Pow2(16)
    /\ (last_call[1] = "get_sixteen_bits_chunks_folding_combiner" /\ Running) =>
           /\ last_call[3] \in DOMAIN chunks
           /\ ret = <<"val", chunks[last_call[3]]>>
    /\ \A k \in 1 .. MaxChunk + 1 :
           (Shr(r, 16 * k) = 0 /\ (0 .. k - 1) \subseteq DOMAIN chunks) =>
               Reassemble(0, k) = r

\* C11 witness: a combiner of two non-zero chunks has been stored and both
\* chunks extracted, the higher one last.
C11_Witness ==
    /\ r = 305441741
    /\ DOMAIN chunks = {0, 1}
    /\ chunks[0] = 43981
    /\ chunks[1] = 4660
    /\ last_call[1] = "get_sixteen_bits_chunks_folding_combiner"
    /\ ret = <<"val", 4660>>

C12_Step ==
    last_call'[1] = "coin_folding_combiner" =>
        /\ current_iteration % 2 = 0 =>
               (sponge_e1' = sponge_e1 + 1 /\ sponge_e2' = sponge_e2)
        /\ current_iteration % 2 = 1 =>
               (sponge_e2' = sponge_e2 + 1 /\ sponge_e1' = sponge_e1)
        /\ panicked' = "none" =>
               /\ ret'[1] = "val"
               /\ state'[last_call'[2].idx] = ret'[2]
               /\ r' = ret'[2]

\* C12. coin_folding_combiner squeezes exactly one sponge per call, curve
\* 1's when the iteration counter is even and curve 2's when it is odd,
\* leaving the other untouched; when it returns, the cell at the column and
\* the stored combiner r both equal the returned challenge.
C12_CoinFoldingCombiner == [][C12_Step]_vars

\* C12 witness: at an odd iteration a non-zero challenge was squeezed out of
\* curve 2's sponge and stored.
C12_Witness ==
    /\ last_call = <<"coin_folding_combiner", X(0)>>
    /\ Running
    /\ current_iteration % 2 = 1
    /\ sponge_e2 = 1
    /\ sponge_e1 = 0
    /\ ret = <<"val", 65536>>
    /\ r = 65536
    /\ state[0] = 65536


\* The commitments of the columns of the witness table on a curve.
ColumnCommitments(curve) ==
    [i \in 0 .. NUMBER_OF_COLUMNS - 1 |->
        [curve |-> curve, point |-> <<"commit", witness[i]>>]]

\* The call just made is a completed compute_and_update_previous_commitments.
IsCommit(call) == call = <<"compute_and_update_previous_commitments">>

C13_Step ==
    (IsCommit(last_call') /\ panicked' = "none") =>
        /\ current_iteration % 2 = 0 =>
               /\ previous_commitments_e1' = ColumnCommitments("e1")
               /\ previous_commitments_e2' = previous_commitments_e2
        /\ current_iteration % 2 = 1 =>
               /\ previous_commitments_e2' = ColumnCommitments("e2")
               /\ previous_commitments_e1' = previous_commitments_e1
        /\ UNCHANGED <<witness, current_row, state, public_state, idx_var,
                       idx_var_pi, current_iteration>>

\* C13. compute_and_update_previous_commitments replaces only the active
\* curve's previous-commitments vector (curve 1 at an even iteration counter,
\* curve 2 at an odd one) with the commitments of the columns; the other
\* curve's vector, the witness table, the row index, the row state, the
\* allocation cursors and the iteration counter are unchanged by the call.
C13_CommitFrame == [][C13_Step]_vars

\* C13 witness: at an odd iteration, in the middle of a row (a column
\* allocated, a value written, one row flushed), curve 2's vector holds the
\* commitments of the columns and curve 1's still holds the blinders.
C13_Witness ==
    /\ IsCommit(last_call)
    /\ Running
    /\ current_iteration % 2 = 1
    /\ previous_commitments_e2 = ColumnCommitments("e2")
    /\ previous_commitments_e1[0] = Blinder("e1")
    /\ current_row = 1
    /\ idx_var = 1
    /\ idx_var_pi = 1
    /\ state[0] = 1
    /\ public_state[0] = 1
    /\ witness[0][0] = 1

C15_ResetForNextIteration ==
    last_call = <<"reset_for_next_iteration">> =>
        /\ current_row = 0
        /\ \A i \in 0 .. NUMBER_OF_COLUMNS - 1 : state[i] = 0
        /\ idx_var = 0
        /\ idx_var_pi = 0

C17_Step ==
    LET modulus == IF current_iteration % 2 = 0 THEN FpModulus ELSE FqModulus
        too_large == \E i \in 0 .. NUMBER_OF_COLUMNS - 1, row \in 0 .. srs_size - 1 :
                         witness[i][row] >= modulus
    IN  last_call'[1] = "compute_and_update_previous_commitments" =>
            /\ too_large =>
                   /\ panicked' # "none"
                   /\ previous_commitments_e1' = previous_commitments_e1
                   /\ previous_commitments_e2' = previous_commitments_e2
            /\ ~too_large => panicked' = "none"

\* C17. Reduction failure is fatal with no partial success: when a cell of
\* the witness table (any column, any row) is not below the active curve's
\* scalar-field modulus, compute_and_update_previous_commitments aborts and
\* neither previous-commitments vector is modified; otherwise it returns.
C17_ReductionFailure == [][C17_Step]_vars

\* C17 witness: at an even iteration the call has aborted on a value that is
\* Fp's modulus exactly (it would reduce into Fq), in the last cell of the
\* table, every other cell being small.
C17_Witness ==
    /\ last_call[1] = "compute_and_update_previous_commitments"
    /\ panicked = "reduction"
    /\ current_iteration % 2 = 0
    /\ witness[NUMBER_OF_COLUMNS - 1][srs_size - 1] = FpModulus
    /\ witness[0][0] < FpModulus
    /\ previous_commitments_e1[0] = Blinder("e1")

\* C20. Per-column commitment is schedule-independent: whatever order the
\* workers finish in, the vector installed has exactly one entry per column
\* and entry i is the commitment of column i's evaluation vector, on curve 1
\* at an even iteration counter and on curve 2 at an odd one.
C20_ScheduleIndependent ==
    (IsCommit(last_call) /\ Running) =>
        /\ current_iteration % 2 = 0 =>
               previous_commitments_e1 = ColumnCommitments("e1")
        /\ current_iteration % 2 = 1 =>
               previous_commitments_e2 = ColumnCommitments("e2")

\* C20 witness: the worker of the last column finished first, the columns
\* differ, and the vector installed is in column order.
C20_Witness ==
    /\ IsCommit(last_call)
    /\ Running
    /\ Len(comms) = NUMBER_OF_COLUMNS
    /\ comms[1].column = NUMBER_OF_COLUMNS - 1
    /\ witness[0] # witness[NUMBER_OF_COLUMNS - 1]
    /\ current_iteration % 2 = 0
    /\ previous_commitments_e1[0].point = <<"commit", witness[0]>>


\* C16. End-to-end trace: in a run of row cycles (fetch the input into a
\* private column, square it into private column 0, flush the row) from a
\* fresh environment, fetch_input returns the current row index and stores it,
\* square(column, x) returns x*x and stores it, and the rows flushed so far
\* hold j*j in column 0 at row j; after trace_size cycles column 0 is
\* [0, 1, 4, ..., (trace_size - 1)^2].
C16_EndToEndTrace ==
    /\ \A j \in 0 .. current_row - 1 : witness[0][j] = j * j
    /\ (last_call[1] = "fetch_input" /\ Running) =>
           /\ ret = <<"val", current_row>>
           /\ state[last_call[2].idx] = current_row
    /\ (last_call[1] = "square" /\ Running) =>
           /\ ret = <<"val", last_call[3] * last_call[3]>>
           /\ state[0] = current_row * current_row
    /\ (current_row = trace_size /\ Running) =>
           witness[0] = [j \in 0 .. trace_size - 1 |-> j * j]

\* C16 witness: every row of the domain has been flushed, the last row's
\* input was fetched into the last private column, and column 0 ends with
\* (trace_size - 1)^2, which is not the row index.
C16_Witness ==
    /\ last_call = <<"reset">>
    /\ Running
    /\ current_row = trace_size
    /\ witness[0][trace_size - 1] = (trace_size - 1) * (trace_size - 1)
    /\ witness[0][trace_size - 1] # trace_size - 1
    /\ witness[NUMBER_OF_COLUMNS - 1][trace_size - 1] = trace_size - 1

\* The column addresses a cell of the private row state.
IsPrivateCell(col) == col.kind = "X" /\ col.idx < NUMBER_OF_COLUMNS

\* The column addresses a cell of the row state, private or public.
IsRowStateCell(col) ==
    \/ IsPrivateCell(col)
    \/ col.kind = "PublicInput" /\ col.idx < NUMBER_OF_PUBLIC_INPUTS

\* The value the row state holds at a column.
RowStateCell(col) ==
    IF col.kind = "X" THEN state[col.idx] ELSE public_state[col.idx]

\* A step changes no field of the two environments.
NoEffect == UNCHANGED <<envVars, ivcVars, setupVars, serVars>>

C18_Step ==
    last_call'[1] = "range_check16" =>
        LET col == last_call'[2]
        IN  /\ NoEffect
            /\ IsPrivateCell(col) =>
                   (panicked' # "none" <=> state[col.idx] >= 65536)
            /\ ~IsPrivateCell(col) => panicked' # "none"

\* C18. range_check16(column), for a column of the private row state, aborts
\* exactly when the value stored in the cell is >= 2^16; for any other
\* column (a public-input column, an index past the last column) it aborts
\* whatever is stored; a call that returns has changed no state.
C18_RangeCheck16 == [][C18_Step]_vars

C18_StepAsClaimed ==
    last_call'[1] = "range_check16" =>
        LET col == last_call'[2]
        IN  /\ NoEffect
            /\ IsRowStateCell(col) =>
                   (panicked' # "none" <=> RowStateCell(col) >= 65536)

\* C18 as claimed: for every column addressing a cell of the row state,
\* private or public, the call aborts exactly when the value stored in the
\* cell is >= 2^16, and changes no state otherwise.
C18_RangeCheckAsClaimed == [][C18_StepAsClaimed]_vars

\* C18 witness: the check has passed on a cell holding 2^16 - 1 while the
\* other private cell holds 2^16.
C18_Witness ==
    /\ last_call = <<"range_check16", X(0)>>
    /\ Running
    /\ state[0] = 65535
    /\ state[NUMBER_OF_COLUMNS - 1] = 65536

C19_Step ==
    /\ last_call'[1] \in {"assert_zero", "assert_equal", "constrain_boolean"} =>
           NoEffect
    /\ last_call'[1] = "assert_zero" =>
           (panicked' # "none" <=> last_call'[2] # 0)
    /\ last_call'[1] = "assert_equal" =>
           (panicked' # "none" <=> last_call'[2] # last_call'[3])
    /\ last_call'[1] = "constrain_boolean" =>
           (panicked' # "none" <=> last_call'[2] \notin {0, 1})

\* C19. The value assertions abort exactly when their predicate fails and
\* otherwise have no effect: assert_zero(v) aborts iff v # 0,
\* assert_equal(a, b) aborts iff a # b, constrain_boolean(v) aborts iff v is
\* neither 0 nor 1; no call changes a field of the environment.
C19_ValueAssertions == [][C19_Step]_vars

\* C19 witness: constrain_boolean(1) has returned on a row state that holds
\* written values, which are still there.
C19_Witness ==
    /\ last_call = <<"constrain_boolean", 1>>
    /\ Running
    /\ state[0] = 65536
    /\ public_state[0] = 1


\* C21. A freshly constructed environment, Env::new with domain size n and
\* initial input z0, holds: instruction SixteenBitsDecomposition, row index
\* 0, both allocation cursors 0, all row-state and public-state cells 0,
\* iteration counter 0, combiner r = 0, current input zi = z0, a witness
\* table of NUMBER_OF_COLUMNS columns each of n zero cells, and one previous
\* commitment per column for each curve.
C21_FreshEnvironment ==
    last_call = <<"new">> =>
        /\ current_instruction = SixteenBitsDecomposition
        /\ current_row = 0
        /\ idx_var = 0
        /\ idx_var_pi = 0
        /\ \A i \in 0 .. NUMBER_OF_COLUMNS - 1 : state[i] = 0
        /\ \A i \in 0 .. NUMBER_OF_PUBLIC_INPUTS - 1 : public_state[i] = 0
        /\ current_iteration = 0
        /\ r = 0
        /\ zi = z0
        /\ DOMAIN witness = 0 .. NUMBER_OF_COLUMNS - 1
        /\ \A i \in 0 .. NUMBER_OF_COLUMNS - 1 :
               /\ DOMAIN witness[i] = 0 .. domain_size - 1
               /\ \A row \in 0 .. domain_size - 1 : witness[i][row] = 0
        /\ DOMAIN previous_commitments_e1 = 0 .. NUMBER_OF_COLUMNS - 1
        /\ DOMAIN previous_commitments_e2 = 0 .. NUMBER_OF_COLUMNS - 1
        /\ \A i \in 0 .. NUMBER_OF_COLUMNS - 1 :
               /\ previous_commitments_e1[i].curve = "e1"
               /\ previous_commitments_e2[i].curve = "e2"

\* C21 witness: an environment constructed with the largest domain and a
\* non-zero initial input, nothing called on it yet.
C21_Witness ==
    /\ last_call = <<"new">>
    /\ domain_size = Pow2(MaxLog2Size)
    /\ z0 = 42
    /\ zi = 42
    /\ witness[NUMBER_OF_COLUMNS - 1][domain_size - 1] = 0


\* The row index is within the domain, its end included.
C23_RowIndexInDomain == current_row \in 0 .. domain_size

\* A reset called at the end of the domain aborts, and no cell of the
\* witness table nor the row index is changed by it.
C23_Step ==
    (last_call' = <<"reset">> /\ current_row = domain_size) =>
        /\ panicked' # "none"
        /\ witness' = witness
        /\ current_row' = current_row

\* C23. advance_row cannot run past the domain: in every reachable state
\* 0 <= current_row <= domain_size, and reset called when current_row =
\* domain_size (one call too many without reset_for_next_iteration) aborts
\* instead of writing a row of the witness table.
C23_NoRowPastDomain == []C23_RowIndexInDomain /\ [][C23_Step]_vars

\* C23 witness: on the largest domain every row was flushed, the first one
\* with a value written, and the output was computed; reset has been called
\* once more and has aborted.
C23_Witness ==
    /\ last_call = <<"reset">>
    /\ panicked = "index_out_of_bounds"
    /\ domain_size = Pow2(MaxLog2Size)
    /\ current_row = domain_size
    /\ witness[0][0] = 1
    /\ witness[0][domain_size - 1] = 0
    /\ zi = 42


\* Chunk i of x, the digit of weight 65536^i: bits 16 i .. 16 i + 15
RECURSIVE SixteenBitsChunk(_, _)
SixteenBitsChunk(x, i) ==
    IF i = 0 THEN x % 65536 ELSE SixteenBitsChunk(x \div 65536, i - 1)

\* No challenge was squeezed since reset_for_next_iteration was last called.
NoCombinerSinceBoundary == sponge_e1 + sponge_e2 = carried[1].squeezes

\* C24. State carried across the iteration boundary:
\* reset_for_next_iteration leaves the witness table and the stored combiner
\* r unchanged, so in the next iteration every row not yet flushed holds the
\* values it held at the boundary, and until a new coin_folding_combiner
\* get_sixteen_bits_chunks_folding_combiner returns the chunks of the r
\* stored at the boundary.
C24_CarriedAcrossBoundary ==
    carried # <<>> =>
        /\ \A i \in 0 .. NUMBER_OF_COLUMNS - 1 :
               \A row \in current_row .. srs_size - 1 :
                   witness[i][row] = carried[1].witness[i][row]
        /\ NoCombinerSinceBoundary =>
               /\ r = carried[1].r
               /\ (last_call[1] = "get_sixteen_bits_chunks_folding_combiner"
                       /\ Running) =>
                      ret = <<"val", SixteenBitsChunk(carried[1].r, last_call[3])>>

\* C24 witness: in the iteration after the boundary no combiner was derived;
\* chunk 1 of the previous iteration's two-chunk combiner has been returned,
\* and the last row of the table still holds what the previous iteration
\* flushed there.
C24_Witness ==
    /\ carried # <<>>
    /\ NoCombinerSinceBoundary
    /\ current_iteration = 1
    /\ carried[1].r = 305441741
    /\ last_call = <<"get_sixteen_bits_chunks_folding_combiner",
                     X(NUMBER_OF_COLUMNS - 1), 1>>
    /\ ret = <<"val", 4660>>
    /\ current_row = srs_size - 1
    /\ witness[0][srs_size - 1] = 305441741


\* The decomposition instructions: SixteenBitsDecomposition and
\* BitDecompositionFrom16Bits(i), 0 <= i <= 15.
DecompositionInstructions ==
    {SixteenBitsDecomposition} \cup {BitDecompositionFrom16Bits(i) : i \in 0 .. 15}

\* C25. Sequencer reachability: every instruction reached from
\* SixteenBitsDecomposition by any number of applications of the transition
\* function (each successor returned being stored) is SixteenBitsDecomposition
\* or BitDecompositionFrom16Bits(i) with 0 <= i <= 15, no Poseidon instruction
\* among them; and from a Poseidon instruction only Poseidon instructions are
\* reached.
C25_SequencerReachability ==
    /\ trail[1] = SixteenBitsDecomposition =>
           /\ \A k \in DOMAIN trail : trail[k] \in DecompositionInstructions
           /\ current_instruction \in DecompositionInstructions
           /\ last_call = <<"fetch_next_instruction">> =>
                  ret[2] \in DecompositionInstructions
    /\ trail[1].tag = "Poseidon" =>
           /\ \A k \in DOMAIN trail : trail[k].tag = "Poseidon"
           /\ current_instruction.tag = "Poseidon"
           /\ last_call = <<"fetch_next_instruction">> =>
                  ret[2].tag = "Poseidon"

\* C25 witness: from SixteenBitsDecomposition the whole sweep was made, the
\* loop closed, and the second sweep is at its second chunk.
C25_Witness ==
    /\ trail[1] = SixteenBitsDecomposition
    /\ Len(trail) = 19
    /\ trail[17] = BitDecompositionFrom16Bits(15)
    /\ trail[18] = SixteenBitsDecomposition
    /\ current_instruction = BitDecompositionFrom16Bits(0)
    /\ last_call = <<"fetch_next_instruction">>
    /\ ret = <<"instr", BitDecompositionFrom16Bits(1)>>


\* C22. get_lookup_multiplicities(domain, table), with n the size of the
\* domain and L the length of the table: when L <= n it returns a vector of
\* n entries (its final assertion holds), for L = n exactly the recorded
\* multiplicities, for L < n the L recorded multiplicities, then n - L - 1
\* entries -1, then a last entry n - L - 1; when L > n the assertion fails.
C22_LookupMultiplicities ==
    last_call[1] = "get_lookup_multiplicities" =>
        LET n == last_call[2]
            table_id == last_call[3]
            L == table_length(table_id)
            m == ret[2]
        IN  /\ L <= n =>
                /\ Running
                /\ ret[1] = "vec"
                /\ Len(m) = n
                /\ \A k \in 1 .. L : m[k] = lookup_multiplicities[table_id][k - 1]
                /\ L < n =>
                       /\ \A k \in L + 1 .. n - 1 : m[k] = -1
                       /\ m[n] = n - L - 1
            /\ L > n => panicked = "assertion"

\* C22 witness: the multiplicities of the first table, the last of them 2,
\* were asked for on a domain at least two entries longer than the table;
\* the vector ends with an entry -1 and the count of such entries.
C22_Witness ==
    /\ last_call[1] = "get_lookup_multiplicities"
    /\ last_call[3] = "RangeCheckA"
    /\ last_call[2] >= FirstTableLength + 2
    /\ Running
    /\ lookup_multiplicities["RangeCheckA"][FirstTableLength - 1] = 2
    /\ Len(ret[2]) = last_call[2]
    /\ ret[2][FirstTableLength] = 2
    /\ ret[2][last_call[2] - 1] = -1
    /\ ret[2][last_call[2]] = last_call[2] - FirstTableLength - 1

\* The sum of the entries a[0], ..., a[n - 1].
RECURSIVE SumOfFirst(_, _)
SumOfFirst(a, n) == IF n = 0 THEN 0 ELSE a[n - 1] + SumOfFirst(a, n - 1)

\* The sum of a table's multiplicities.
SumOfMultiplicities(table_id) ==
    SumOfFirst(lookup_multiplicities[table_id], table_length(table_id))

\* The sum of every table's multiplicities is the number of lookup calls
\* made on it since create.
C26_SumIsCallsSinceCreate ==
    \A t \in LookupTables : SumOfMultiplicities(t) = lookup_calls[t]

C26_Step ==
    /\ (last_call'[1] = "lookup" /\ panicked' = "none") =>
           LET t == last_call'[2]
               ix == ix_by_value(t, last_call'[3])
           IN  /\ lookup_multiplicities'[t][ix] = lookup_multiplicities[t][ix] + 1
               /\ \A k \in DOMAIN lookup_multiplicities[t] \ {ix} :
                      lookup_multiplicities'[t][k] = lookup_multiplicities[t][k]
               /\ Len(lookups'[t]) = Len(lookups[t]) + 1
               /\ SubSeq(lookups'[t], 1, Len(lookups[t])) = lookups[t]
               /\ lookups'[t][Len(lookups'[t])].value = <<last_call'[3]>>
               /\ \A u \in LookupTables \ {t} :
                      /\ lookup_multiplicities'[u] = lookup_multiplicities[u]
                      /\ lookups'[u] = lookups[u]
    /\ last_call' = <<"WitnessBuilderEnv::reset">> =>
           /\ \A t \in LookupTables : lookups'[t] = <<>>
           /\ lookup_multiplicities' = lookup_multiplicities

\* C26. Lookup bookkeeping of the serialization builder: a lookup call
\* increments exactly one multiplicity of its table, the one at the value's
\* index, by one, and appends exactly one lookup to that table's list,
\* touching no other table; reset empties every list and leaves every
\* multiplicity; so the sum of a table's multiplicities is always the number
\* of lookup calls on it since create, not since the last reset.
C26_LookupBookkeeping == []C26_SumIsCallsSinceCreate /\ [][C26_Step]_vars

\* C26 witness: two lookups on the second table, a reset, a third lookup on
\* it: the list holds one lookup and the multiplicities sum to three.
C26_Witness ==
    /\ last_call[1] = "lookup"
    /\ Running
    /\ lookup_calls["RangeCheckB"] = 3
    /\ Len(lookups["RangeCheckB"]) = 1
    /\ SumOfMultiplicities("RangeCheckB") = 3
    /\ lookup_multiplicities["RangeCheckB"][FirstTableLength] = 2
    /\ SumOfMultiplicities("RangeCheckA") = 0

=============================================================================
